---------------------------- MODULE Spec2Model ----------------------------
(***************************************************************************)
(* Vehicle-dealership operations: S08 manifest parsing, e-mail load        *)
(* ingestion, the inventory ledger and the transfer / receive workflow.    *)
(*                                                                         *)
(* Text is modelled as a sequence of one-character tokens; "LF", "CR" and  *)
(* "TAB" stand for the line feed, carriage return and tab characters.      *)
(* Python's None is the one-element tuple NoneVal, which no text equals.   *)
(***************************************************************************)
EXTENDS Integers, Sequences, FiniteSets, TLC

VARIABLES
    vehicles,   \* VehicleMaster table: sequence of rows, in insertion order
    ledger,     \* InventoryTransaction table: sequence of rows
    session,    \* the browser session of the one user agent
    nextLoad,   \* number of transfer load numbers generated so far
    resp,       \* the response of the last handler that ran
    hist,       \* what the last handler did (its inputs and the state it saw)
    mailbox,    \* per configured branch: the sender's messages, oldest first
    ingested,   \* the branches whose mailbox an ingestion run has been through
    procs,      \* the sync-emails requests in flight (concurrent specification)
    sales,      \* SalesRecord table: sequence of rows
    pin,        \* parser specification: the inputs drawn
    pout        \* parser specification: what the parser functions returned

vars == <<vehicles, ledger, session, nextLoad, resp, hist, mailbox, ingested, procs, sales, pin, pout>>

NoneVal == <<"<None>">>

MinOf(S) == CHOOSE x \in S : \A y \in S : x <= y
MaxOf(S) == CHOOSE x \in S : \A y \in S : x >= y

(***************************************************************************)
(* Text primitives of the Python runtime, as the parser uses them.         *)
(***************************************************************************)
Whitespace == {" ", "TAB", "LF", "CR"}
LineBoundaries == {"LF", "CR"}

\* line[a:b] for 0 <= a <= b: the slice is clamped to the end of the line
Slice(line, a, b) ==
    IF a >= Len(line) THEN <<>>
    ELSE SubSeq(line, a + 1, IF b < Len(line) THEN b ELSE Len(line))

\* str.strip(): leading and trailing whitespace removed
Strip(s) ==
    LET keep == {i \in 1..Len(s) : s[i] \notin Whitespace}
    IN  IF keep = {} THEN <<>> ELSE SubSeq(s, MinOf(keep), MaxOf(keep))

\* str.splitlines(): boundaries are dropped, CR LF counts as one boundary and
\* a boundary at the very end opens no further line
RECURSIVE SplitFrom(_, _, _)
SplitFrom(s, i, ends) ==
    IF i > Len(s) THEN <<>>
    ELSE LET rest == {j \in ends : j >= i}
             j    == IF rest = {} THEN Len(s) + 1 ELSE MinOf(rest)
             nxt  == IF j < Len(s) /\ s[j] = "CR" /\ s[j + 1] = "LF"
                     THEN j + 2 ELSE j + 1
         IN  <<SubSeq(s, i, j - 1)>> \o SplitFrom(s, nxt, ends)

splitlines(content) ==
    SplitFrom(content, 1, {j \in 1..Len(content) : content[j] \in LineBoundaries})

\* dict.get(key, default)
DictGet(d, key, default) == IF key \in DOMAIN d THEN d[key] ELSE default

(***************************************************************************)
(* services/email_service.py: the S08 manifest parser.                     *)
(***************************************************************************)
MinLineLen == 180
MarkerOffset == 25

\* variant: the record-type marker is not looked at
QualifiesNoMarker(line) == ~(Len(line) < MinLineLen)

\* the negation of the skip test `len(line) < 180 or line[25] != 'B'`
Qualifies(line) == ~(Len(line) < MinLineLen \/ line[MarkerOffset + 1] # "B")

\* decoder_map = {(model_code.strip(), variant_code.strip()): (real_model, real_variant)}
\* a later row of the table overwrites an earlier one with the same key
BuildDecoderMap(mappings) ==
    LET key(r) == <<Strip(r.model_code), Strip(r.variant_code)>>
        keys   == {key(mappings[i]) : i \in 1..Len(mappings)}
        last(k) == MaxOf({i \in 1..Len(mappings) : key(mappings[i]) = k})
    IN  [k \in keys |-> <<mappings[last(k)].real_model, mappings[last(k)].real_variant>>]

\* `if color_map:` is false for None and for the empty dict
ColorMapTruthy(color_map) == ~color_map.none /\ DOMAIN color_map.d # {}

\* variant: a colour code the map lacks decodes to nothing
FinalColorNoDefault(raw_color_code, color_map) ==
    IF ColorMapTruthy(color_map)
    THEN DictGet(color_map.d, raw_color_code, NoneVal)
    ELSE raw_color_code

FinalColor(raw_color_code, color_map) ==
    IF ColorMapTruthy(color_map)
    THEN DictGet(color_map.d, raw_color_code, raw_color_code)
    ELSE raw_color_code

DecodeLine(line, decoder_map, color_map) ==
    LET m_code  == Strip(Slice(line, 27, 38))
        v_code  == Strip(Slice(line, 38, 45))
        real    == DictGet(decoder_map, <<m_code, v_code>>, <<m_code, v_code>>)
        raw_color_code == Strip(Slice(line, 45, 60))
    IN  [load_reference |-> Strip(Slice(line, 84, 97)),
         chassis_no     |-> Strip(Slice(line, 113, 130)),
         engine_no      |-> Strip(Slice(line, 173, 186)),
         color          |-> FinalColor(raw_color_code, color_map),
         model          |-> real[1],
         variant        |-> real[2]]

_parse_s08_content(content, decoder_map, color_map) ==
    LET q == SelectSeq(splitlines(content), Qualifies)
    IN  [k \in 1..Len(q) |-> DecodeLine(q[k], decoder_map, color_map)]

\* variant: the reference is read off the first line, qualifying or not
PeekFirstLine(content) ==
    LET q == splitlines(content)
    IN  IF q = <<>> THEN NoneVal ELSE Strip(Slice(q[1], 84, 97))

_peek_load_ref(content) ==
    LET q == SelectSeq(splitlines(content), Qualifies)
    IN  IF q = <<>> THEN NoneVal ELSE Strip(Slice(q[1], 84, 97))


(***************************************************************************)
(* Manifest lines the inputs are drawn from.  A line is laid out at the    *)
(* vendor's fixed offsets (email_service.py:160-173); `x` is what the      *)
(* sender put on the line, used only to state the claims.                  *)
(***************************************************************************)
LineSpecs == <<
    \* 1: well-formed, 186 wide, a mapped product and a mapped colour
    [marker |-> "B", len |-> 186, m |-> <<"M","1">>, v |-> <<"V","1">>, col |-> <<"K","1">>,
     ref |-> <<"L","1">>, ch |-> <<"C","1">>, eng |-> <<"E","1">>,
     x |-> [ok |-> TRUE, m |-> <<"M","1">>, v |-> <<"V","1">>, col |-> <<"K","1">>,
            ref |-> <<"L","1">>, ch |-> <<"C","1">>, eng |-> <<"E","1">>]],
    \* 2: well-formed, exactly 180 wide (the engine field is cut at the line end),
    \*    product and colour unknown to the tables
    [marker |-> "B", len |-> 180, m |-> <<"M","2">>, v |-> <<"V","2">>, col |-> <<"K","2">>,
     ref |-> <<"L","1">>, ch |-> <<"C","2">>, eng |-> <<"E","2","3","4","5","6","7","8">>,
     x |-> [ok |-> TRUE, m |-> <<"M","2">>, v |-> <<"V","2">>, col |-> <<"K","2">>,
            ref |-> <<"L","1">>, ch |-> <<"C","2">>, eng |-> <<"E","2","3","4","5","6","7">>]],
    \* 3: well-formed, 200 wide, another load, tabs inside the fields' padding,
    \*    the model code known with another variant only
    [marker |-> "B", len |-> 200, m |-> <<"TAB","M","1">>, v |-> <<"V","2","TAB">>, col |-> <<"K","1">>,
     ref |-> <<"L","2">>, ch |-> <<"C","1">>, eng |-> <<"E","1">>,
     x |-> [ok |-> TRUE, m |-> <<"M","1">>, v |-> <<"V","2">>, col |-> <<"K","1">>,
            ref |-> <<"L","2">>, ch |-> <<"C","1">>, eng |-> <<"E","1">>]],
    \* 4: well-formed, load 2, chassis 2
    [marker |-> "B", len |-> 186, m |-> <<"M","1">>, v |-> <<"V","1">>, col |-> <<"K","2">>,
     ref |-> <<"L","2">>, ch |-> <<"C","2">>, eng |-> <<"E","2">>,
     x |-> [ok |-> TRUE, m |-> <<"M","1">>, v |-> <<"V","1">>, col |-> <<"K","2">>,
            ref |-> <<"L","2">>, ch |-> <<"C","2">>, eng |-> <<"E","2">>]],
    \* 5: well-formed but its load reference field is blank
    [marker |-> "B", len |-> 186, m |-> <<"M","1">>, v |-> <<"V","1">>, col |-> <<"K","1">>,
     ref |-> <<>>, ch |-> <<"C","2">>, eng |-> <<"E","2">>,
     x |-> [ok |-> TRUE, m |-> <<"M","1">>, v |-> <<"V","1">>, col |-> <<"K","1">>,
            ref |-> <<>>, ch |-> <<"C","2">>, eng |-> <<"E","2">>]],
    \* 6: another record type at the marker offset
    [marker |-> "A", len |-> 186, m |-> <<"M","1">>, v |-> <<"V","1">>, col |-> <<"K","1">>,
     ref |-> <<"L","1">>, ch |-> <<"C","1">>, eng |-> <<"E","1">>,
     x |-> [ok |-> FALSE]],
    \* 7: one character short
    [marker |-> "B", len |-> 179, m |-> <<"M","1">>, v |-> <<"V","1">>, col |-> <<"K","1">>,
     ref |-> <<"L","1">>, ch |-> <<"C","1">>, eng |-> <<"E","1">>,
     x |-> [ok |-> FALSE]],
    \* 8: the empty line, shorter than the marker offset
    [marker |-> "B", len |-> 0, m |-> <<>>, v |-> <<>>, col |-> <<>>,
     ref |-> <<>>, ch |-> <<>>, eng |-> <<>>,
     x |-> [ok |-> FALSE]] >>

LineKinds == 1..Len(LineSpecs)

\* the character the sender put at 1-based column i of a line
CharAt(sp, i) ==
    LET in(f, off) == i > off /\ i <= off + Len(f)
    IN  CASE i = MarkerOffset + 1 -> sp.marker
          [] in(sp.m, 27)    -> sp.m[i - 27]
          [] in(sp.v, 38)    -> sp.v[i - 38]
          [] in(sp.col, 45)  -> sp.col[i - 45]
          [] in(sp.ref, 84)  -> sp.ref[i - 84]
          [] in(sp.ch, 113)  -> sp.ch[i - 113]
          [] in(sp.eng, 173) -> sp.eng[i - 173]
          [] OTHER           -> " "

LineText == [k \in LineKinds |-> [i \in 1..LineSpecs[k].len |-> CharAt(LineSpecs[k], i)]]

\* the attachment text: the lines joined by the boundary `sep`, with or without
\* a boundary after the last line
RECURSIVE JoinLines(_, _, _)
JoinLines(kinds, sep, trailing) ==
    IF kinds = <<>> THEN <<>>
    ELSE LineText[Head(kinds)]
         \o (IF Len(kinds) > 1 \/ trailing THEN sep ELSE <<>>)
         \o JoinLines(Tail(kinds), sep, trailing)

Separators == {<<"LF">>, <<"CR", "LF">>}

(***************************************************************************)
(* ProductMapping tables and colour maps the inputs are drawn from.        *)
(***************************************************************************)
MappingTables == <<
    <<>>,
    << [model_code |-> <<"M","1">>, variant_code |-> <<"V","1">>,
        real_model |-> <<"Activa">>, real_variant |-> <<"DLX">>] >>,
    << [model_code |-> <<"M","1"," ">>, variant_code |-> <<" ","V","1">>,
        real_model |-> <<"Dio">>, real_variant |-> <<"STD">>],
       [model_code |-> <<"M","1">>, variant_code |-> <<"V","1">>,
        real_model |-> <<"Activa">>, real_variant |-> <<"DLX">>],
       [model_code |-> <<"M","3">>, variant_code |-> <<"V","2">>,
        real_model |-> <<"Shine">>, real_variant |-> <<"DRUM">>] >> >>

ColorMaps == <<
    [none |-> TRUE,  d |-> <<>>],
    [none |-> FALSE, d |-> <<>>],
    [none |-> FALSE, d |-> (<<"K","1">> :> <<"Red">>)] >>


(***************************************************************************)
(* Parser specification: an attachment text, a product table and a colour  *)
(* map are drawn, then _parse_s08_content and _peek_load_ref are applied.  *)
(***************************************************************************)
MaxLines == 3

RECURSIVE SeqsUpTo(_, _)
SeqsUpTo(S, n) ==
    IF n = 0 THEN {<<>>}
    ELSE LET shorter == SeqsUpTo(S, n - 1)
         IN  shorter \cup {Append(q, e) : q \in {t \in shorter : Len(t) = n - 1}, e \in S}

ParserInputs ==
    [kinds : SeqsUpTo(LineKinds, MaxLines), sep : Separators, trailing : BOOLEAN,
     table : DOMAIN MappingTables, cmap : DOMAIN ColorMaps]

Unset == [set |-> FALSE]

\* the variables of the request-handling specifications, idle
IdleHandlers ==
    /\ vehicles = <<>> /\ ledger = <<>> /\ session = [logged_in |-> FALSE]
    /\ nextLoad = 0 /\ resp = [op |-> "none"] /\ hist = [op |-> "none"]
    /\ mailbox = <<>> /\ ingested = {} /\ procs = <<>> /\ sales = <<>>

ParseInit ==
    /\ IdleHandlers
    /\ pin \in ParserInputs
    /\ pout = [batch |-> Unset, peek |-> Unset]

InputContent == JoinLines(pin.kinds, pin.sep, pin.trailing)

\* the attachment is parsed after it has been peeked at (email_service.py:96, 111)
ApplyParse ==
    /\ pout.peek.set
    /\ ~pout.batch.set
    /\ pout' = [pout EXCEPT !.batch =
                   [set |-> TRUE,
                    val |-> _parse_s08_content(InputContent,
                                               BuildDecoderMap(MappingTables[pin.table]),
                                               ColorMaps[pin.cmap])]]
    /\ UNCHANGED <<vehicles, ledger, session, nextLoad, resp, hist, mailbox, ingested, procs, sales, pin>>

ApplyPeek ==
    /\ ~pout.peek.set
    /\ pout' = [pout EXCEPT !.peek = [set |-> TRUE, val |-> _peek_load_ref(InputContent)]]
    /\ UNCHANGED <<vehicles, ledger, session, nextLoad, resp, hist, mailbox, ingested, procs, sales, pin>>

ParseNext == ApplyParse \/ ApplyPeek

SpecParse == ParseInit /\ [][ParseNext]_vars


(***************************************************************************)
(* Claims about the parser (parser specification).                         *)
(***************************************************************************)
\* what the qualifying lines of the drawn text say, in the order written
WrittenRecords ==
    SelectSeq([k \in 1..Len(pin.kinds) |-> LineSpecs[pin.kinds[k]].x], LAMBDA x : x.ok)

\* C6: the parser returns one record per qualifying line of the text, in the
\* order of those lines, each with the load reference, chassis and engine
\* number written on its line, whatever the other lines are.
C6_OneRecordPerQualifyingLine ==
    pout.batch.set =>
        /\ Len(pout.batch.val) = Len(WrittenRecords)
        /\ \A k \in 1..Len(WrittenRecords) :
              /\ pout.batch.val[k].load_reference = WrittenRecords[k].ref
              /\ pout.batch.val[k].chassis_no = WrittenRecords[k].ch
              /\ pout.batch.val[k].engine_no = WrittenRecords[k].eng

\* a text with a skipped line between two qualifying lines has been parsed
C6_Witness ==
    /\ pout.batch.set
    /\ Len(pin.kinds) = 3
    /\ LineSpecs[pin.kinds[1]].x.ok /\ ~LineSpecs[pin.kinds[2]].x.ok
    /\ LineSpecs[pin.kinds[3]].x.ok
    /\ pin.kinds[1] # pin.kinds[3]
    /\ Len(pout.batch.val) = 2

ExpectedProduct(table, m, v) ==
    IF table \in {2, 3} /\ m = <<"M","1">> /\ v = <<"V","1">> THEN <<<<"Activa">>, <<"DLX">>>>
    ELSE IF table = 3 /\ m = <<"M","3">> /\ v = <<"V","2">> THEN <<<<"Shine">>, <<"DRUM">>>>
    ELSE <<m, v>>

\* the name the colour maps hold for a colour code, written out
ExpectedColor(cmap, col) ==
    IF cmap = 3 /\ col = <<"K","1">> THEN <<"Red">> ELSE col

\* C7: every record carries the mapped model and variant names when the
\* product table holds its pair of codes and the raw codes when it does not,
\* and the mapped colour when the colour map holds its code and the raw
\* colour code when the map is None, empty or lacks the code.
C7_DecodeFallsBackToRawCodes ==
    pout.batch.set =>
        /\ Len(pout.batch.val) = Len(WrittenRecords)
        /\ \A k \in 1..Len(WrittenRecords) :
              LET x == WrittenRecords[k]
              IN  /\ pout.batch.val[k].model = ExpectedProduct(pin.table, x.m, x.v)[1]
                  /\ pout.batch.val[k].variant = ExpectedProduct(pin.table, x.m, x.v)[2]
                  /\ pout.batch.val[k].color = ExpectedColor(pin.cmap, x.col)

\* one text has given a record with mapped names and colour, and a record
\* whose codes the table and the map lack
C7_Witness ==
    /\ pout.batch.set /\ pin.table = 3 /\ pin.cmap = 3
    /\ \E a, b \in 1..Len(pout.batch.val) :
          /\ pout.batch.val[a].model = <<"Activa">> /\ pout.batch.val[a].color = <<"Red">>
          /\ pout.batch.val[b].model = <<"M","2">> /\ pout.batch.val[b].variant = <<"V","2">>
          /\ pout.batch.val[b].color = <<"K","2">>

(***************************************************************************)
(* The database the request handlers work on.                              *)
(***************************************************************************)
BranchIds == {<<"1">>, <<"3">>}

\* branch_service.get_head_branches(db): the head branches, in the order returned
HeadBranches == << <<"1">>, <<"3">> >>

\* the User table: an owner (no branch), a back-office user of branch 3 and a
\* user whose role the application does not admit
Users == <<
    [id |-> 1, username |-> <<"o","w","n","e","r">>, role |-> "Owner",       Branch_ID |-> NoneVal],
    [id |-> 2, username |-> <<"a","s","h","a">>,     role |-> "Back Office", Branch_ID |-> <<"3">>],
    [id |-> 3, username |-> <<"r","a","v","i">>,     role |-> "Sales",       Branch_ID |-> <<"1">>],
    [id |-> 5, username |-> <<"m","a","n","i">>,     role |-> "Mechanic",    Branch_ID |-> <<"3">>] >>

Chassis == {<<"C","1">>, <<"C","2">>}

\* the ProductMapping table of the running system, and sync_emails' colour map
ProductMappings == MappingTables[2]
SyncColorMap == [none |-> FALSE, d |-> <<>>]

\* a vehicle that was entered into stock by hand
StockVehicle(c, b) ==
    [chassis_no |-> c, engine_no |-> <<"E","0">>, model |-> <<"Activa">>,
     variant |-> <<"DLX">>, color |-> <<"Red">>, status |-> "In Stock",
     load_reference_number |-> NoneVal, current_branch_id |-> b,
     sale_id |-> NoneVal, dc_number |-> NoneVal]

InitialTables ==
    { <<>>,
      <<StockVehicle(<<"C","1">>, <<"1">>)>>,
      <<StockVehicle(<<"C","1">>, <<"1">>), StockVehicle(<<"C","2">>, <<"3">>)>> }

\* Python truthiness of an optional text
Truthy(t) == t # NoneVal /\ t # <<>>

\* Query.first(): the first of the matching row indexes, 0 for None
First(hits) == IF hits = {} THEN 0 ELSE MinOf(hits)

\* the indexes of the rows of the vehicle master with a chassis number
ByChassis(vt, chassis_no) == {n \in 1..Len(vt) : vt[n].chassis_no = chassis_no}

\* Query.all(): the indexes of the rows satisfying P, in table order
RECURSIVE SortedSeq(_)
SortedSeq(S) ==
    IF S = {} THEN <<>> ELSE <<MinOf(S)>> \o SortedSeq(S \ {MinOf(S)})

\* the vehicle master's key: a chassis number names one vehicle
ChassisUnique(rows) ==
    \A i, j \in 1..Len(rows) : rows[i].chassis_no = rows[j].chassis_no => i = j

\* the Status column's default, taken by a row written without a Status
DefaultStatus == "Completed"

(***************************************************************************)
(* routers/auth.py and routers/overview.py: the session.                   *)
(***************************************************************************)
NoSession == [logged_in |-> FALSE, user_id |-> 0, branch_id |-> NoneVal,
              active_context |-> NoneVal]

check_auth(sess) == sess.logged_in

\* variant: the stored context is preferred to the user's own branch
ContextStoredFirst(sess) ==
    IF sess.active_context # NoneVal THEN sess.active_context
    ELSE IF sess.branch_id # NoneVal THEN sess.branch_id
    ELSE IF HeadBranches # <<>> THEN HeadBranches[1]
    ELSE NoneVal

\* get_active_context: the user's own branch, else the stored context, else the
\* first head branch, which is then stored in the session
get_active_context(sess) ==
    IF sess.branch_id # NoneVal THEN sess.branch_id
    ELSE IF sess.active_context # NoneVal THEN sess.active_context
    ELSE IF HeadBranches # <<>> THEN HeadBranches[1]
    ELSE NoneVal

SessionAfterContext(sess) ==
    IF sess.branch_id = NoneVal /\ sess.active_context = NoneVal /\ HeadBranches # <<>>
    THEN [sess EXCEPT !.active_context = HeadBranches[1]]
    ELSE sess

DbUnchanged == UNCHANGED <<vehicles, ledger, nextLoad>>
NoSync == UNCHANGED ingested
Frame == UNCHANGED <<mailbox, procs, sales, pin, pout>>

\* POST /login with the phone number of user `phone`; 0 is a number no user has
LoginWith(phone) ==
    /\ IF phone = 0 \/ Users[IF phone = 0 THEN 1 ELSE phone].role \notin {"Owner", "PDI", "Back Office"}
       THEN /\ session' = session
            /\ resp' = [op |-> "login", success |-> FALSE, code |-> 200]
       ELSE /\ session' = [session EXCEPT !.logged_in = TRUE,
                                          !.user_id = Users[phone].id,
                                          !.branch_id = Users[phone].Branch_ID]
            /\ resp' = [op |-> "login", success |-> TRUE, code |-> 303]
    /\ hist' = [op |-> "login"]
    /\ DbUnchanged /\ NoSync /\ Frame

Login == \E phone \in 0..Len(Users) : LoginWith(phone)

Logout ==
    /\ session' = NoSession
    /\ resp' = [op |-> "logout", success |-> TRUE, code |-> 307]
    /\ hist' = [op |-> "logout"]
    /\ DbUnchanged /\ NoSync /\ Frame

switch_context ==
    \E branch_id \in BranchIds :
        /\ IF ~check_auth(session) \/ session.branch_id # NoneVal
           THEN session' = session
           ELSE session' = [session EXCEPT !.active_context = branch_id]
        /\ resp' = [op |-> "switch_context", success |-> check_auth(session), code |-> 303]
        /\ hist' = [op |-> "switch_context"]
        /\ DbUnchanged /\ NoSync /\ Frame


(***************************************************************************)
(* routers/logistics.py: transfer and receive.                             *)
(***************************************************************************)
MaxTransfers == 1
MaxLedger == 4

\* variant: what the call had written when the exception came stays
RollbackKeepsPending(committed, pending) == pending

\* db.rollback() in the handlers' `except Exception`: the pending writes of
\* the call are dropped, the tables are as committed before the call
db_rollback(committed, pending) == committed

\* where a call can meet an exception: nowhere (0), or after the first turn
\* of its write loop, before the commit (1)
Faults == {0, 1}

\* the load numbers log_bulk_transfer_master generates, in order
Digits == <<"1", "2", "3", "4", "5", "6", "7", "8", "9">>
LoadNumber(n) == <<"T", Digits[n]>>

\* the chassis of chassis_list that are In Stock at the source branch when
\* their turn comes (a chassis named twice is In Transit the second time)
AcceptedForTransfer(vt, from_branch_id, chassis_list) ==
    LET ok(k) == /\ \A h \in 1..(k - 1) : chassis_list[h] # chassis_list[k]
                 /\ LET v == First(ByChassis(vt, chassis_list[k]))
                    IN  v # 0 /\ vt[v].status = "In Stock"
                              /\ vt[v].current_branch_id = from_branch_id
    IN  SortedSeq({k \in 1..Len(chassis_list) : ok(k)})

OutwardRow(c, load, from_branch_id, to_branch_id) ==
    [Transaction_Type |-> "OUTWARD", chassis_no |-> c, Load_Number |-> load,
     From_Branch_ID |-> from_branch_id, To_Branch_ID |-> to_branch_id,
     Current_Branch_ID |-> from_branch_id, Status |-> "Pending", Quantity |-> 1]

\* stock_service.log_bulk_transfer_master: one Pending OUTWARD row per accepted
\* chassis under a fresh load number, the vehicle flipped to In Transit; no
\* accepted vehicle is an exception
log_bulk_transfer_master(vt, lg, from_branch_id, to_branch_id, chassis_list, load) ==
    LET acc == AcceptedForTransfer(vt, from_branch_id, chassis_list)
        cs  == {chassis_list[acc[k]] : k \in 1..Len(acc)}
    IN  IF acc = <<>>
        THEN [raised |-> TRUE, vehicles |-> vt, ledger |-> lg, accepted |-> 0]
        ELSE [raised |-> FALSE,
              vehicles |-> [i \in 1..Len(vt) |->
                              IF vt[i].chassis_no \in cs
                                 /\ i = First(ByChassis(vt, vt[i].chassis_no))
                              THEN [vt[i] EXCEPT !.status = "In Transit"] ELSE vt[i]],
              ledger |-> lg \o [k \in 1..Len(acc) |->
                              OutwardRow(chassis_list[acc[k]], load, from_branch_id, to_branch_id)],
              accepted |-> Len(acc)]

\* `from_branch_id == destination_branch`: the session holds the branch id as
\* text and destination_branch is int(...) of the form field; in Python a text
\* never equals a number
SameBranch(from_branch_id, destination_branch) == FALSE

\* the destination check alone
InputsPresentNoDc(destination_branch, dc_number, chassis_numbers) ==
    Truthy(destination_branch) /\ chassis_numbers # <<>>

\* "Validate inputs" (logistics.py:586-602): a destination, a DC number and
\* at least one chassis
InputsPresent(destination_branch, dc_number, chassis_numbers) ==
    /\ Truthy(destination_branch)
    /\ Truthy(dc_number)
    /\ chassis_numbers # <<>>

\* the transfer forms submitted (destination, DC number, chassis list): all
\* fields filled in with any chassis list, or the destination or the DC
\* number left empty
TransferForms ==
    {<<b, <<"D","C","7">>, cs>> : b \in BranchIds, cs \in SeqsUpTo(Chassis, 2)}
    \cup { << <<>>, <<"D","C","7">>, << <<"C","1">> >> >>,
           << <<"3">>, <<>>, << <<"C","1">> >> >> }

transfer_batch ==
    \E form \in TransferForms, fault \in Faults :
        LET destination_branch == form[1]
            dc_number == form[2]
            chassis_numbers == form[3]
            sess == SessionAfterContext(session)
            from_branch_id == get_active_context(session)
            validated == /\ check_auth(session)
                         /\ InputsPresent(destination_branch, dc_number, chassis_numbers)
            r == log_bulk_transfer_master(vehicles, ledger, from_branch_id,
                     destination_branch, chassis_numbers,
                     LoadNumber(nextLoad + 1))
            \* the writes pending when log_bulk_transfer_master meets an exception
            p == log_bulk_transfer_master(vehicles, ledger, from_branch_id,
                     destination_branch, SubSeq(chassis_numbers, 1, 1),
                     LoadNumber(nextLoad + 1))
            reached == validated /\ Truthy(from_branch_id)
                       /\ ~SameBranch(from_branch_id, destination_branch)
            faulted == reached /\ ~r.raised /\ fault = 1
        IN  /\ nextLoad < MaxTransfers
            /\ fault = 1 => (reached /\ ~r.raised)
            /\ hist' = [op |-> "transfer_batch", chassis |-> chassis_numbers,
                        destination |-> destination_branch, dc |-> dc_number,
                        branch |-> from_branch_id, fault |-> faulted]
            /\ IF ~validated
               THEN /\ resp' = [op |-> "transfer_batch", success |-> FALSE, code |-> 303]
                    /\ UNCHANGED <<session, vehicles, ledger, nextLoad>>
               ELSE /\ session' = sess
                    /\ IF ~Truthy(from_branch_id)
                          \/ SameBranch(from_branch_id, destination_branch)
                          \/ r.raised
                       THEN /\ resp' = [op |-> "transfer_batch", success |-> FALSE,
                                        code |-> 303]
                            /\ UNCHANGED <<vehicles, ledger, nextLoad>>
                       ELSE IF faulted
                       THEN /\ resp' = [op |-> "transfer_batch", success |-> FALSE,
                                        code |-> 303]
                            /\ vehicles' = db_rollback(vehicles, p.vehicles)
                            /\ ledger' = db_rollback(ledger, p.ledger)
                            /\ UNCHANGED nextLoad
                       ELSE /\ Len(r.ledger) <= MaxLedger
                            /\ vehicles' = r.vehicles
                            /\ ledger' = r.ledger
                            /\ nextLoad' = nextLoad + 1
                            /\ resp' = [op |-> "transfer_batch", success |-> TRUE,
                                        code |-> 303, count |-> Len(chassis_numbers)]
            /\ NoSync /\ Frame

\* variant: the query does not look at the receiving branch
ReceiveQueryAnyBranch(lg, load_number, receiving_branch_id) ==
    SortedSeq({n \in 1..Len(lg) : /\ lg[n].Load_Number = load_number
                                   /\ lg[n].Transaction_Type = "OUTWARD"})

\* the rows receive_load_action's query returns (logistics.py:127-131)
ReceiveQuery(lg, load_number, receiving_branch_id) ==
    SortedSeq({n \in 1..Len(lg) : /\ lg[n].Load_Number = load_number
                                   /\ lg[n].To_Branch_ID = receiving_branch_id
                                   /\ lg[n].Transaction_Type = "OUTWARD"})

\* the INWARD row written for the OUTWARD row txn (logistics.py:157-169)
InwardRow(txn, load_number, receiving_branch_id) ==
    [Transaction_Type |-> "INWARD", chassis_no |-> NoneVal, Load_Number |-> load_number,
     From_Branch_ID |-> txn.From_Branch_ID, To_Branch_ID |-> NoneVal,
     Current_Branch_ID |-> receiving_branch_id, Status |-> DefaultStatus,
     Quantity |-> txn.Quantity]

\* the loop over pending_transactions (logistics.py:141-170)
ReceiveLoop(vt, lg, q, load_number, receiving_branch_id) ==
    LET named == {lg[q[k]].chassis_no : k \in {h \in 1..Len(q) : Truthy(lg[q[h]].chassis_no)}}
        hit(i) == /\ vt[i].chassis_no \in named
                  /\ i = First(ByChassis(vt, vt[i].chassis_no))
    IN  [ledger |-> [i \in 1..Len(lg) |->
                        IF \E k \in 1..Len(q) : q[k] = i
                        THEN [lg[i] EXCEPT !.Status = "Completed"] ELSE lg[i]]
                    \o [k \in 1..Len(q) |-> InwardRow(lg[q[k]], load_number, receiving_branch_id)],
         vehicles |-> [i \in 1..Len(vt) |->
                        IF hit(i)
                        THEN [vt[i] EXCEPT !.current_branch_id = receiving_branch_id,
                                           !.status = "In Stock"]
                        ELSE vt[i]],
         received_count |-> Cardinality({k \in 1..Len(q) :
                               /\ Truthy(lg[q[k]].chassis_no)
                               /\ \E i \in 1..Len(vt) : vt[i].chassis_no = lg[q[k]].chassis_no})]

receive_load_action ==
    \E load_number \in {LoadNumber(k) : k \in 1..MaxTransfers} \cup {<<>>},
       fault \in Faults :
        LET receiving_branch_id == get_active_context(session)
            q == ReceiveQuery(ledger, load_number, receiving_branch_id)
            r == ReceiveLoop(vehicles, ledger, q, load_number, receiving_branch_id)
            \* the writes pending after the first turn of the loop
            p == ReceiveLoop(vehicles, ledger, SubSeq(q, 1, 1), load_number,
                             receiving_branch_id)
            reached == check_auth(session) /\ Truthy(load_number)
                       /\ Truthy(receiving_branch_id) /\ q # <<>>
            fail(code) == /\ resp' = [op |-> "receive_load", success |-> FALSE, code |-> code]
                          /\ UNCHANGED <<vehicles, ledger>>
        IN  /\ fault = 1 => reached
            /\ hist' = [op |-> "receive_load", load |-> load_number,
                        branch |-> receiving_branch_id, fault |-> (fault = 1)]
            /\ IF ~check_auth(session)
               THEN fail(401) /\ session' = session
               ELSE IF ~Truthy(load_number)
               THEN fail(200) /\ session' = session
               ELSE /\ session' = SessionAfterContext(session)
                    /\ IF ~Truthy(receiving_branch_id) \/ q = <<>>
                       THEN fail(200)
                       ELSE IF fault = 1
                       THEN /\ resp' = [op |-> "receive_load", success |-> FALSE,
                                        code |-> 500]
                            /\ ledger' = db_rollback(ledger, p.ledger)
                            /\ vehicles' = db_rollback(vehicles, p.vehicles)
                       ELSE /\ Len(r.ledger) <= MaxLedger
                            /\ ledger' = r.ledger
                            /\ vehicles' = r.vehicles
                            /\ resp' = [op |-> "receive_load", success |-> TRUE,
                                        code |-> 200, received |-> r.received_count]
            /\ UNCHANGED nextLoad
            /\ NoSync /\ Frame


(***************************************************************************)
(* routers/logistics.py: manual sale.                                      *)
(***************************************************************************)
\* what the chassis_numbers form field holds between its commas
SaleItems == {<<"C","1">>, <<" ","C","1">>, <<"C","2">>, <<" ">>}

\* [c.strip() for c in chassis_numbers if c.strip()]
CleanChassisList(items) ==
    SelectSeq([k \in 1..Len(items) |-> Strip(items[k])], LAMBDA c : c # <<>>)

\* variant: the query looks at the chassis number only
SaleQueryByChassis(vt, chassis_no, branch_id) == First(ByChassis(vt, chassis_no))

\* the vehicle query of create_manual_sale (logistics.py:307-311): the session
\* does not autoflush, so a status set earlier in the same call is not seen
SaleQuery(vt, chassis_no, branch_id) ==
    First({n \in 1..Len(vt) : /\ vt[n].chassis_no = chassis_no
                              /\ vt[n].current_branch_id = branch_id
                              /\ vt[n].status = "In Stock"})

\* the SALE row written for a vehicle (logistics.py:320-334)
SaleRow(chassis_no, branch_id) ==
    [Transaction_Type |-> "SALE", chassis_no |-> chassis_no, Load_Number |-> NoneVal,
     From_Branch_ID |-> NoneVal, To_Branch_ID |-> NoneVal,
     Current_Branch_ID |-> branch_id, Status |-> "Completed", Quantity |-> 1]

\* the loop over chassis_numbers (logistics.py:305-336), its first `upto` turns
SaleLoop(vt, lg, chassis_numbers, branch_id, upto) ==
    LET sold == SelectSeq([k \in 1..upto |-> chassis_numbers[k]],
                          LAMBDA c : SaleQuery(vt, c, branch_id) # 0)
        rows == {SaleQuery(vt, sold[k], branch_id) : k \in 1..Len(sold)}
    IN  [vehicles |-> [n \in 1..Len(vt) |->
                          IF n \in rows THEN [vt[n] EXCEPT !.status = "Sold"] ELSE vt[n]],
         ledger |-> lg \o [k \in 1..Len(sold) |-> SaleRow(sold[k], branch_id)],
         sold_count |-> Len(sold)]

create_manual_sale ==
    \E items \in SeqsUpTo(SaleItems, 2), fault \in Faults :
        LET chassis_numbers == CleanChassisList(items)
            branch_id == get_active_context(session)
            r == SaleLoop(vehicles, ledger, chassis_numbers, branch_id, Len(chassis_numbers))
            \* the writes pending after the first turn of the loop
            p == SaleLoop(vehicles, ledger, chassis_numbers, branch_id, 1)
            reached == check_auth(session) /\ chassis_numbers # <<>>
            \* no message of the handler holds a chassis number (logistics.py:295-358)
            fail(code) == /\ resp' = [op |-> "manual_sale", success |-> FALSE, code |-> code,
                                      chassis_named |-> {}]
                          /\ UNCHANGED <<vehicles, ledger>>
        IN  /\ fault = 1 => reached
            /\ IF ~check_auth(session)
               THEN /\ fail(401) /\ session' = session
                    /\ hist' = [op |-> "manual_sale", ran |-> FALSE, fault |-> FALSE]
               ELSE IF chassis_numbers = <<>>
               THEN /\ fail(200) /\ session' = session
                    /\ hist' = [op |-> "manual_sale", ran |-> FALSE, fault |-> FALSE]
               ELSE /\ session' = SessionAfterContext(session)
                    /\ hist' = [op |-> "manual_sale", ran |-> (fault = 0),
                                chassis |-> chassis_numbers, branch |-> branch_id,
                                fault |-> (fault = 1)]
                    /\ IF fault = 1
                       THEN /\ resp' = [op |-> "manual_sale", success |-> FALSE,
                                        code |-> 500, chassis_named |-> {}]
                            /\ vehicles' = db_rollback(vehicles, p.vehicles)
                            /\ ledger' = db_rollback(ledger, p.ledger)
                       ELSE IF r.sold_count = 0
                       THEN fail(200)
                       ELSE /\ Len(r.ledger) <= MaxLedger
                            /\ vehicles' = r.vehicles
                            /\ ledger' = r.ledger
                            /\ resp' = [op |-> "manual_sale", success |-> TRUE,
                                        code |-> 200, sold |-> r.sold_count,
                                        chassis_named |-> {}]
            /\ UNCHANGED nextLoad
            /\ NoSync /\ Frame


(***************************************************************************)
(* services/email_service.py: the ingestion run.                           *)
(***************************************************************************)
ScanCap == 30
TargetCount == 5

\* the messages a mailbox can hold: without attachment, one whose fetch or
\* decoding raises, and S08 attachments given by their lines
Messages == <<
    [kind |-> "plain",  lines |-> <<>>],
    [kind |-> "broken", lines |-> <<>>],
    [kind |-> "s08",    lines |-> <<1, 2>>],      \* load L1: C1, C2
    [kind |-> "s08",    lines |-> <<3>>],         \* load L2: C1
    [kind |-> "s08",    lines |-> <<6, 8>>],      \* no qualifying line
    [kind |-> "s08",    lines |-> <<4, 4>>],      \* load L2: C2 twice
    [kind |-> "s08",    lines |-> <<5>>],         \* blank load reference
    [kind |-> "s08",    lines |-> <<7, 1, 4>>],   \* L1: C1 then L2: C2
    [kind |-> "s08",    lines |-> <<4>>],         \* load L2: C2
    [kind |-> "s08",    lines |-> <<1, 8>>] >>    \* load L1: C1

MsgIds == DOMAIN Messages

\* mail.fetch / email.message_from_bytes raising for this message
FetchRaises(m) == Messages[m].kind = "broken"

\* _extract_text_attachment: the decoded S08 attachment, or None
ExtractTextAttachment ==
    [m \in MsgIds |-> IF Messages[m].kind = "s08"
                      THEN JoinLines(Messages[m].lines, <<"LF">>, TRUE)
                      ELSE NoneVal]

MsgPeek == [m \in MsgIds |-> IF Messages[m].kind = "s08"
                             THEN _peek_load_ref(ExtractTextAttachment[m]) ELSE NoneVal]

MsgParsed == [m \in MsgIds |-> IF Messages[m].kind = "s08"
                               THEN _parse_s08_content(ExtractTextAttachment[m],
                                        BuildDecoderMap(ProductMappings), SyncColorMap)
                               ELSE <<>>]

\* list(reversed(email_ids))[:30]
RecentIds(mb) ==
    [k \in 1..(IF Len(mb) < ScanCap THEN Len(mb) ELSE ScanCap) |-> mb[Len(mb) + 1 - k]]

\* the duplicate check on the load reference (email_service.py:102-108)
LoadExists(vt, first_ref) ==
    First({n \in 1..Len(vt) : vt[n].load_reference_number = first_ref}) # 0

\* `s08_files_found += 1` (email_service.py:93)
CountFound(found) == found + 1

\* variant: the exception leaves the loop
OnMessageErrorAbort(st, m) ==
    [st EXCEPT !.trail = Append(@, <<m, "error">>), !.stopped = TRUE]

\* what an exception raised for one message does to the scan (email_service.py:116-117)
OnMessageError(st, m) == [st EXCEPT !.trail = Append(@, <<m, "error">>)]

\* one iteration of the loop body (email_service.py:85-117)
ScanOne(st, m, vt) ==
    IF FetchRaises(m) THEN OnMessageError(st, m)
    ELSE IF ~Truthy(ExtractTextAttachment[m])
    THEN [st EXCEPT !.trail = Append(@, <<m, "plain">>)]
    ELSE LET st1 == [st EXCEPT !.found = CountFound(@)]
             first_ref == MsgPeek[m]
         IN  IF ~Truthy(first_ref)
             THEN [st1 EXCEPT !.trail = Append(@, <<m, "noref">>)]
             ELSE IF LoadExists(vt, first_ref)
             THEN [st1 EXCEPT !.trail = Append(@, <<m, "dup">>)]
             ELSE [st1 EXCEPT !.data = @ \o MsgParsed[m],
                              !.trail = Append(@, <<m, "parsed">>)]

ScanStart == [found |-> 0, data |-> <<>>, trail |-> <<>>, stopped |-> FALSE]

\* the loop test `if s08_files_found >= target_count: break`
ScanDone(st, recent, idx) == idx > Len(recent) \/ st.found >= TargetCount \/ st.stopped

RECURSIVE ScanLoop(_, _, _, _)
ScanLoop(st, recent, idx, vt) ==
    IF ScanDone(st, recent, idx) THEN st
    ELSE ScanLoop(ScanOne(st, recent[idx], vt), recent, idx + 1, vt)

\* fetch_and_process_emails: a connection or login failure is caught by the
\* outer handler and the (empty) list is returned
fetch_and_process_emails(vt, mb, connected) ==
    IF ~connected THEN [ScanStart EXCEPT !.trail = <<<<0, "connection error">>>>]
    ELSE ScanLoop(ScanStart, RecentIds(mb), 1, vt)

\* variant: the vehicle is entered as already received
NewVehicleInStock(vd, branch_id) ==
    [chassis_no |-> vd.chassis_no, engine_no |-> vd.engine_no, model |-> vd.model,
     variant |-> vd.variant, color |-> vd.color, status |-> "In Stock",
     load_reference_number |-> vd.load_reference, current_branch_id |-> branch_id,
     sale_id |-> NoneVal, dc_number |-> NoneVal]

NewVehicle(vd, branch_id) ==
    [chassis_no |-> vd.chassis_no, engine_no |-> vd.engine_no, model |-> vd.model,
     variant |-> vd.variant, color |-> vd.color, status |-> "In Transit",
     load_reference_number |-> vd.load_reference, current_branch_id |-> branch_id,
     sale_id |-> NoneVal, dc_number |-> NoneVal]

\* the chassis check (email_service.py:195-201), against the rows the session reads
ChassisExists(vt, vd) == First(ByChassis(vt, vd.chassis_no)) # 0

\* variant: the commit takes every added row
CommitWithoutKey(vt, added) == [raised |-> FALSE, vehicles |-> vt \o added]

\* db.commit() of the added rows: the key of the vehicle master is enforced,
\* a violation raises and nothing is written
CommitVehicles(vt, added) ==
    IF ChassisUnique(vt \o added)
    THEN [raised |-> FALSE, vehicles |-> vt \o added]
    ELSE [raised |-> TRUE, vehicles |-> vt]

\* variant: the loop is left after the first vehicle added
CreateFirstOnly(vt, vehicle_data_list, branch_id) ==
    LET fresh == SelectSeq(vehicle_data_list, LAMBDA vd : ~ChassisExists(vt, vd))
        added == IF fresh = <<>> THEN <<>> ELSE <<NewVehicle(fresh[1], branch_id)>>
        c     == CommitVehicles(vt, added)
    IN  [raised |-> c.raised, vehicles |-> c.vehicles,
         added |-> IF c.raised THEN <<>> ELSE added,
         loads_created |-> {fresh[k].load_reference : k \in 1..Len(added)}]

\* create_vehicles_from_email_data: the session does not autoflush
\* (database.py:79), so the chassis check sees committed rows only
create_vehicles_from_email_data(vt, vehicle_data_list, branch_id) ==
    LET fresh == SelectSeq(vehicle_data_list, LAMBDA vd : ~ChassisExists(vt, vd))
        added == [k \in 1..Len(fresh) |-> NewVehicle(fresh[k], branch_id)]
        c     == CommitVehicles(vt, added)
    IN  [raised |-> c.raised, vehicles |-> c.vehicles,
         added |-> IF c.raised THEN <<>> ELSE added,
         loads_created |-> {fresh[k].load_reference : k \in 1..Len(fresh)}]

\* the branches sync_emails holds a mailbox configuration for (logistics.py:378-393)
ConfiguredBranches == {<<"1">>, <<"3">>}

sync_emails ==
    \E connected \in BOOLEAN :
        LET active_branch_id == get_active_context(session)
            f == fetch_and_process_emails(vehicles, mailbox[active_branch_id], connected)
            c == create_vehicles_from_email_data(vehicles, f.data, active_branch_id)
            refuse(code) == /\ resp' = [op |-> "sync_emails", success |-> FALSE, code |-> code]
                            /\ hist' = [op |-> "sync_emails", ran |-> FALSE, fault |-> FALSE]
                            /\ UNCHANGED <<vehicles, ingested>>
        IN  /\ IF ~check_auth(session)
               THEN refuse(401) /\ session' = session
               ELSE /\ session' = SessionAfterContext(session)
                    /\ IF active_branch_id \notin ConfiguredBranches
                       THEN refuse(200)
                       ELSE /\ hist' = [op |-> "sync_emails", ran |-> TRUE,
                                        branch |-> active_branch_id,
                                        connected |-> connected,
                                        rerun |-> active_branch_id \in ingested,
                                        data |-> f.data, trail |-> f.trail,
                                        fault |-> (f.data # <<>> /\ c.raised)]
                            /\ IF f.data = <<>>
                               THEN /\ resp' = [op |-> "sync_emails", success |-> TRUE,
                                                code |-> 200, new_loads |-> 0,
                                                vehicles_count |-> 0]
                                    /\ ingested' = IF connected
                                                   THEN ingested \cup {active_branch_id}
                                                   ELSE ingested
                                    /\ UNCHANGED vehicles
                               ELSE IF c.raised
                               THEN /\ resp' = [op |-> "sync_emails", success |-> FALSE,
                                                code |-> 200, new_loads |-> 0]
                                    /\ UNCHANGED <<vehicles, ingested>>
                               ELSE /\ resp' = [op |-> "sync_emails", success |-> TRUE,
                                                code |-> 200,
                                                new_loads |-> Cardinality(c.loads_created),
                                                vehicles_count |-> Len(f.data)]
                                    /\ vehicles' = c.vehicles
                                    /\ ingested' = ingested \cup {active_branch_id}
            /\ UNCHANGED <<ledger, nextLoad>>
            /\ Frame

(***************************************************************************)
(* The request-handling specification: one user agent, handlers atomic.    *)
(***************************************************************************)
\* the mailboxes of branch 1 and branch 3, oldest message first
MailboxChoices ==
    { (<<"1">> :> <<9, 2, 10>>             @@ <<"3">> :> <<3>>),
      (<<"1">> :> <<6, 1>>                 @@ <<"3">> :> <<>>),
      (<<"1">> :> <<8, 7, 5, 7, 5, 7, 1>>  @@ <<"3">> :> <<4, 2, 3>>) }

Init ==
    /\ vehicles \in InitialTables
    /\ ledger = <<>>
    /\ session = NoSession
    /\ nextLoad = 0
    /\ resp = [op |-> "none"]
    /\ hist = [op |-> "none"]
    /\ mailbox \in MailboxChoices
    /\ ingested = {}
    /\ procs = <<>>
    /\ sales = <<>>
    /\ pin = [kinds |-> <<>>]
    /\ pout = [batch |-> Unset, peek |-> Unset]

Next ==
    \/ Login
    \/ Logout
    \/ switch_context
    \/ transfer_batch
    \/ receive_load_action
    \/ sync_emails

Spec == Init /\ [][Next]_vars

(***************************************************************************)
(* The stock specification: the handlers that move stock and sell it; no   *)
(* ingestion runs, the mailboxes are not read.                             *)
(***************************************************************************)
StockMailbox == (<<"1">> :> <<6, 1>> @@ <<"3">> :> <<4, 2, 3>>)

StockInit ==
    /\ vehicles \in InitialTables
    /\ ledger = <<>>
    /\ session = NoSession
    /\ nextLoad = 0
    /\ resp = [op |-> "none"]
    /\ hist = [op |-> "none"]
    /\ mailbox = StockMailbox
    /\ ingested = {}
    /\ procs = <<>>
    /\ sales = <<>>
    /\ pin = [kinds |-> <<>>]
    /\ pout = [batch |-> Unset, peek |-> Unset]

StockNext ==
    \/ Login
    \/ Logout
    \/ switch_context
    \/ transfer_batch
    \/ receive_load_action
    \/ create_manual_sale

SpecStock == StockInit /\ [][StockNext]_vars

(***************************************************************************)
(* The write specification: the four write paths side by side (transfer,   *)
(* receive, manual sale, ingestion), each of which can meet an exception.  *)
(***************************************************************************)
WriteInit ==
    /\ vehicles = <<StockVehicle(<<"C","1">>, <<"1">>)>>
    /\ ledger = <<>>
    /\ session = NoSession
    /\ nextLoad = 0
    /\ resp = [op |-> "none"]
    /\ hist = [op |-> "none"]
    /\ mailbox = StockMailbox
    /\ ingested = {}
    /\ procs = <<>>
    /\ sales = <<>>
    /\ pin = [kinds |-> <<>>]
    /\ pout = [batch |-> Unset, peek |-> Unset]

WriteNext ==
    \/ Login
    \/ transfer_batch
    \/ receive_load_action
    \/ create_manual_sale
    \/ sync_emails

SpecWrite == WriteInit /\ [][WriteNext]_vars

(***************************************************************************)
(* The transfer specification: sign-in, branch switch, transfer and        *)
(* receipt.                                                                *)
(***************************************************************************)
TransferNext ==
    \/ Login
    \/ switch_context
    \/ transfer_batch
    \/ receive_load_action

SpecTransfer == StockInit /\ [][TransferNext]_vars

(***************************************************************************)
(* Pre-delivery inspection: the mechanic's scan and completion, the task   *)
(* manager's assignment, and the sales service.                            *)
(***************************************************************************)
\* a sales record as the sales system hands it over: awaiting PDI, no vehicle
SaleRecord(id, dc) ==
    [id |-> id, DC_Number |-> dc, chassis_no |-> NoneVal, engine_no |-> NoneVal,
     fulfillment_status |-> "PDI Pending", pdi_assigned_to |-> NoneVal,
     dc_number |-> NoneVal]

\* the sale ids a form can carry; the second names no record
SaleIds == {<<"1">>, <<"2">>}

\* the indexes of the sales records with an id
ById(st, sale_id) == {n \in 1..Len(st) : st[n].id = sale_id}

\* the indexes of the users with an id
UserById(mechanic_id) == {n \in 1..Len(Users) : Users[n].id = mechanic_id}

\* the QR payloads a scan can carry
QrInputs == {<<"C","1">>, <<" ","X",":"," ","C","2">>, <<" ">>, <<"X",":">>}

\* the chassis number in a QR payload: the text after the last colon
\* (mechanic.py:176-181)
QrChassis(qr_data) ==
    LET colons == {k \in 1..Len(qr_data) : qr_data[k] = ":"}
    IN  IF colons = {} THEN qr_data
        ELSE Strip(SubSeq(qr_data, MaxOf(colons) + 1, Len(qr_data)))

\* session["username"] and session["user_role"] as login stored them
\* (auth.py:63-64); None for a session without login
SessionUsername(sess) ==
    LET u == First(UserById(sess.user_id))
    IN  IF u = 0 THEN NoneVal ELSE Users[u].username

SessionRole(sess) ==
    LET u == First(UserById(sess.user_id))
    IN  IF u = 0 THEN "none" ELSE Users[u].role

PdiFrame == UNCHANGED <<session, ledger, nextLoad, mailbox, ingested, procs, pin, pout>>

\* POST /mechanic/scan-qr
scan_qr_code ==
    \E sale_id \in SaleIds, qr \in QrInputs :
        LET qr_data == Strip(qr)
            chassis_no == QrChassis(qr_data)
            vehicle == First(ByChassis(vehicles, chassis_no))
            sale == First(ById(sales, sale_id))
            fail(code) == /\ resp' = [op |-> "scan_qr", success |-> FALSE, code |-> code]
                          /\ UNCHANGED <<vehicles, sales>>
        IN  /\ hist' = [op |-> "scan_qr", sale_id |-> sale_id, chassis |-> chassis_no]
            /\ IF ~check_auth(session) THEN fail(401)
               ELSE IF ~Truthy(qr_data) \/ vehicle = 0 \/ sale = 0 THEN fail(200)
               ELSE /\ sales' = [sales EXCEPT ![sale].chassis_no = vehicles[vehicle].chassis_no,
                                              ![sale].engine_no = vehicles[vehicle].engine_no]
                    /\ vehicles' = [vehicles EXCEPT ![vehicle].status = "Allotted",
                                                    ![vehicle].sale_id = sale_id,
                                                    ![vehicle].dc_number = sales[sale].DC_Number]
                    /\ resp' = [op |-> "scan_qr", success |-> TRUE, code |-> 200]
            /\ PdiFrame

\* POST /mechanic/complete-pdi
complete_pdi ==
    \E sale_id \in SaleIds :
        LET sale == First(ById(sales, sale_id))
            fail(code) == /\ resp' = [op |-> "complete_pdi", success |-> FALSE, code |-> code]
                          /\ UNCHANGED sales
        IN  /\ hist' = [op |-> "complete_pdi", sale_id |-> sale_id]
            /\ IF ~check_auth(session) THEN fail(401)
               ELSE IF sale = 0 THEN fail(200)
               ELSE IF ~Truthy(sales[sale].chassis_no) \/ ~Truthy(sales[sale].engine_no)
               THEN fail(200)
               ELSE /\ sales' = [sales EXCEPT ![sale].fulfillment_status = "PDI Complete"]
                    /\ resp' = [op |-> "complete_pdi", success |-> TRUE, code |-> 200]
            /\ UNCHANGED vehicles
            /\ PdiFrame

\* POST /task-manager/assign: the answer is a redirect in every case
assign_task ==
    \E mechanic_id \in {2, 4}, sale_id \in SaleIds :
        LET mechanic == First(UserById(mechanic_id))
            sale == First(ById(sales, sale_id))
        IN  /\ hist' = [op |-> "assign_task", sale_id |-> sale_id]
            /\ IF ~check_auth(session)
               THEN /\ resp' = [op |-> "assign_task", code |-> 307]
                    /\ UNCHANGED sales
               ELSE /\ resp' = [op |-> "assign_task", code |-> 303]
                    /\ IF mechanic # 0 /\ sale # 0
                       THEN sales' = [sales EXCEPT
                                ![sale].pdi_assigned_to = Users[mechanic].username,
                                ![sale].fulfillment_status = "PDI In Progress"]
                       ELSE UNCHANGED sales
            /\ UNCHANGED vehicles
            /\ PdiFrame

\* sales_service.assign_pdi_mechanic
assign_pdi_mechanic ==
    \E sale_id \in SaleIds, mechanic_name \in {<<"a","s","h","a">>} :
        LET record == First(ById(sales, sale_id))
        IN  /\ hist' = [op |-> "assign_pdi_mechanic", sale_id |-> sale_id]
            /\ IF record # 0
               THEN /\ sales' = [sales EXCEPT
                            ![record].pdi_assigned_to = mechanic_name,
                            ![record].fulfillment_status = "PDI In Progress"]
                    /\ resp' = [op |-> "assign_pdi_mechanic", success |-> TRUE]
               ELSE /\ resp' = [op |-> "assign_pdi_mechanic", success |-> FALSE]
                    /\ UNCHANGED sales
            /\ UNCHANGED vehicles
            /\ PdiFrame

\* the optional arguments of sales_service.complete_pdi: both left out, or
\* an engine number and a DC number
OptionalArgs == { <<NoneVal, NoneVal>>, << <<"E","9">>, <<"D","C","7">> >> }

\* the chassis numbers a caller of sales_service.complete_pdi passes: those of
\* the forms, and the empty text
ServiceChassis == Chassis \cup {<<>>}

\* sales_service.complete_pdi
sales_service_complete_pdi ==
    \E sale_id \in SaleIds, chassis_no \in ServiceChassis, optional \in OptionalArgs :
        LET engine_no == optional[1]
            dc_number == optional[2]
            record == First(ById(sales, sale_id))
            vehicle == First(ByChassis(vehicles, chassis_no))
            fail == /\ resp' = [op |-> "sales_service_complete_pdi", success |-> FALSE]
                    /\ UNCHANGED <<vehicles, sales>>
        IN  /\ hist' = [op |-> "sales_service_complete_pdi", sale_id |-> sale_id,
                        chassis |-> chassis_no]
            /\ IF record = 0 \/ vehicle = 0 THEN fail
               ELSE IF vehicles[vehicle].status # "In Stock"
               THEN IF vehicles[vehicle].sale_id = sale_id
                    THEN /\ sales' = [sales EXCEPT ![record].fulfillment_status = "PDI Complete"]
                         /\ resp' = [op |-> "sales_service_complete_pdi", success |-> TRUE]
                         /\ UNCHANGED vehicles
                    ELSE fail
               ELSE /\ vehicles' = [vehicles EXCEPT ![vehicle].status = "Allotted",
                                                    ![vehicle].sale_id = sale_id]
                    /\ sales' = [sales EXCEPT
                            ![record].chassis_no = vehicles[vehicle].chassis_no,
                            ![record].engine_no = IF ~Truthy(engine_no)
                                                  THEN vehicles[vehicle].engine_no
                                                  ELSE engine_no,
                            ![record].fulfillment_status = "PDI Complete",
                            ![record].dc_number = IF Truthy(dc_number) THEN dc_number
                                                  ELSE sales[record].dc_number]
                    /\ resp' = [op |-> "sales_service_complete_pdi", success |-> TRUE]
            /\ PdiFrame

(***************************************************************************)
(* The PDI specification: sign-in, manual sales and the PDI                *)
(* steps on one sale that awaits its inspection.  It starts after branch 1 *)
(* has sent chassis C2 to branch 3 under load T1.                          *)
(***************************************************************************)
PdiVehicles ==
    << StockVehicle(<<"C","1">>, <<"1">>),
       [StockVehicle(<<"C","2">>, <<"1">>) EXCEPT !.status = "In Transit"] >>

PdiLedger == << OutwardRow(<<"C","2">>, LoadNumber(1), <<"1">>, <<"3">>) >>

PdiInit ==
    /\ vehicles = PdiVehicles
    /\ ledger = PdiLedger
    /\ session = NoSession
    /\ nextLoad = 1
    /\ resp = [op |-> "none"]
    /\ hist = [op |-> "none"]
    /\ mailbox = StockMailbox
    /\ ingested = {}
    /\ procs = <<>>
    /\ sales = <<SaleRecord(<<"1">>, <<"D","C","7">>)>>
    /\ pin = [kinds |-> <<>>]
    /\ pout = [batch |-> Unset, peek |-> Unset]

PdiNext ==
    \/ Login
    \/ create_manual_sale
    \/ scan_qr_code
    \/ complete_pdi
    \/ assign_task
    \/ assign_pdi_mechanic
    \/ sales_service_complete_pdi

SpecPdi == PdiInit /\ [][PdiNext]_vars

(***************************************************************************)
(* The receiving specification: two loads are on the road, T1 from branch  *)
(* 1 to branch 3 and T2 from branch 3 to branch 1, and branch 3 has sold a *)
(* third vehicle by hand.                                                  *)
(***************************************************************************)
ReceiveVehicles ==
    << [StockVehicle(<<"C","1">>, <<"1">>) EXCEPT !.status = "In Transit"],
       [StockVehicle(<<"C","2">>, <<"3">>) EXCEPT !.status = "In Transit"],
       [StockVehicle(<<"C","3">>, <<"3">>) EXCEPT !.status = "Sold"] >>

ReceiveLedger ==
    << OutwardRow(<<"C","1">>, LoadNumber(1), <<"1">>, <<"3">>),
       OutwardRow(<<"C","2">>, LoadNumber(2), <<"3">>, <<"1">>),
       SaleRow(<<"C","3">>, <<"3">>) >>

ReceiveInit ==
    /\ vehicles = ReceiveVehicles
    /\ ledger = ReceiveLedger
    /\ session = NoSession
    /\ nextLoad = 2
    /\ resp = [op |-> "none"]
    /\ hist = [op |-> "none"]
    /\ mailbox = StockMailbox
    /\ ingested = {}
    /\ procs = <<>>
    /\ sales = <<>>
    /\ pin = [kinds |-> <<>>]
    /\ pout = [batch |-> Unset, peek |-> Unset]

ReceiveNext ==
    \/ Login
    \/ switch_context
    \/ receive_load_action
    \/ create_manual_sale

SpecReceive == ReceiveInit /\ [][ReceiveNext]_vars

(***************************************************************************)
(* The linking specification: two sales await their inspection, and the    *)
(* steps that link a vehicle to a sale run in any order.                   *)
(***************************************************************************)
LinkInit ==
    /\ vehicles = PdiVehicles
    /\ ledger = PdiLedger
    /\ session = NoSession
    /\ nextLoad = 1
    /\ resp = [op |-> "none"]
    /\ hist = [op |-> "none"]
    /\ mailbox = StockMailbox
    /\ ingested = {}
    /\ procs = <<>>
    /\ sales = << SaleRecord(<<"1">>, <<"D","C","7">>), SaleRecord(<<"2">>, <<"D","C","8">>) >>
    /\ pin = [kinds |-> <<>>]
    /\ pout = [batch |-> Unset, peek |-> Unset]

LinkNext ==
    \/ Login
    \/ scan_qr_code
    \/ complete_pdi
    \/ sales_service_complete_pdi

SpecLink == LinkInit /\ [][LinkNext]_vars


(***************************************************************************)
(* Claims about receive-load.                                              *)
(***************************************************************************)
\* the Pending OUTWARD rows of load L addressed to branch X
PendingRows(lg, L, X) ==
    {i \in 1..Len(lg) : /\ lg[i].Transaction_Type = "OUTWARD"
                        /\ lg[i].Load_Number = L
                        /\ lg[i].To_Branch_ID = X
                        /\ lg[i].Status = "Pending"}

\* every transfer in the ledger went from one branch to another
BetweenBranches(lg) ==
    \A i \in 1..Len(lg) :
        lg[i].Transaction_Type = "OUTWARD" => lg[i].From_Branch_ID # lg[i].To_Branch_ID

\* C1: with transfers between different branches only, a receive-load call
\* that directly follows a successful receive-load call for the same load
\* number at the same branch adds no ledger row, changes no ledger row and changes no
\* vehicle.
C1_SecondReceiveIsNoOp ==
    [][(/\ hist.op = "receive_load" /\ resp.success /\ hist'.op = "receive_load"
        /\ hist'.load = hist.load /\ hist'.branch = hist.branch
        /\ BetweenBranches(ledger))
       => (ledger' = ledger /\ vehicles' = vehicles)]_vars

\* C2: with transfers between different branches only, a successful
\* receive-load of load L at branch X completes every Pending OUTWARD row of
\* L addressed to X, writes exactly one Completed INWARD row
\* with the same load number and chassis per such row, and leaves every
\* vehicle those rows name In Stock at X.
C2_ReceiveCompletesAndPairs ==
    [][(hist'.op = "receive_load" /\ resp'.success /\ BetweenBranches(ledger))
       => LET L == hist'.load
              X == hist'.branch
              P == PendingRows(ledger, L, X)
              new == (Len(ledger) + 1)..Len(ledger')
          IN  P # {} =>
                /\ \A i \in P : ledger'[i].Status = "Completed"
                /\ \A i \in P :
                     Cardinality({j \in new :
                         /\ ledger'[j].Transaction_Type = "INWARD"
                         /\ ledger'[j].Status = "Completed"
                         /\ ledger'[j].Load_Number = L
                         /\ ledger'[j].chassis_no = ledger[i].chassis_no}) = 1
                /\ \A i \in P : \A v \in 1..Len(vehicles') :
                     vehicles'[v].chassis_no = ledger[i].chassis_no
                     => /\ vehicles'[v].status = "In Stock"
                        /\ vehicles'[v].current_branch_id = X]_vars

\* C3: with transfers between different branches only, receive-load for a
\* (load, branch) pair without a Pending OUTWARD row addressed to that branch
\* fails and writes nothing.
C3_NothingPendingIsRefused ==
    [][(/\ hist'.op = "receive_load"
        /\ PendingRows(ledger, hist'.load, hist'.branch) = {}
        /\ BetweenBranches(ledger))
       => (~resp'.success /\ ledger' = ledger /\ vehicles' = vehicles)]_vars

(***************************************************************************)
(* The concurrent specification: two sync-emails requests of one session   *)
(* run side by side, each query and the commit a step of its own.          *)
(***************************************************************************)
SyncProcs == {1, 2}

\* what a transaction's queries see: the rows as they were when it began, or
\* the rows committed so far, as the database is configured
Isolations == {"snapshot", "committed"}

IdleProc(iso) ==
    [pc |-> "idle", iso |-> iso, branch |-> NoneVal, recent |-> <<>>, idx |-> 1,
     st |-> ScanStart, k |-> 1, added |-> <<>>, snap |-> <<>>, success |-> FALSE]

View(pr) == IF pr.iso = "snapshot" THEN pr.snap ELSE vehicles

\* the sessions a logged-in user agent can hold
SyncSessions ==
    { [logged_in |-> TRUE, user_id |-> 1, branch_id |-> NoneVal, active_context |-> NoneVal],
      [logged_in |-> TRUE, user_id |-> 1, branch_id |-> NoneVal, active_context |-> <<"3">>],
      [logged_in |-> TRUE, user_id |-> 2, branch_id |-> <<"3">>, active_context |-> NoneVal] }

SyncInit ==
    /\ vehicles \in InitialTables
    /\ ledger = <<>>
    /\ session \in SyncSessions
    /\ nextLoad = 0
    /\ resp = [op |-> "none"]
    /\ hist = [op |-> "none"]
    /\ mailbox \in MailboxChoices
    /\ ingested = {}
    /\ procs \in {[p \in SyncProcs |-> IdleProc(iso)] : iso \in Isolations}
    /\ sales = <<>>
    /\ pin = [kinds |-> <<>>]
    /\ pout = [batch |-> Unset, peek |-> Unset]

SyncFrame == UNCHANGED <<ledger, nextLoad, resp, hist, mailbox, ingested, sales, pin, pout>>

\* sync_emails up to the mailbox connection (logistics.py:363-414,
\* email_service.py:56-75)
SyncRequest(p) ==
    /\ procs[p].pc = "idle"
    /\ check_auth(session)
    /\ get_active_context(session) \in ConfiguredBranches
    /\ \E connected \in BOOLEAN :
          procs' = [procs EXCEPT ![p] =
                       [@ EXCEPT !.pc = IF connected THEN "scan" ELSE "done",
                                 !.branch = get_active_context(session),
                                 !.recent = IF connected
                                            THEN RecentIds(mailbox[get_active_context(session)])
                                            ELSE <<>>,
                                 !.snap = vehicles,
                                 !.success = ~connected]]
    /\ session' = SessionAfterContext(session)
    /\ UNCHANGED vehicles
    /\ SyncFrame

\* one turn of the message loop, with its load-reference query
SyncScan(p) ==
    LET pr == procs[p]
    IN  /\ pr.pc = "scan"
        /\ IF ScanDone(pr.st, pr.recent, pr.idx)
           THEN procs' = [procs EXCEPT ![p] =
                             [@ EXCEPT !.pc = IF pr.st.data = <<>> THEN "done" ELSE "persist",
                                       !.success = (pr.st.data = <<>>)]]
           ELSE procs' = [procs EXCEPT ![p] =
                             [@ EXCEPT !.st = ScanOne(pr.st, pr.recent[pr.idx], View(pr)),
                                       !.idx = pr.idx + 1]]
        /\ UNCHANGED <<vehicles, session>>
        /\ SyncFrame

\* one turn of the loop of create_vehicles_from_email_data, with its chassis
\* query; the added rows are pending until the commit
SyncCheck(p) ==
    LET pr == procs[p]
    IN  /\ pr.pc = "persist"
        /\ IF pr.k > Len(pr.st.data)
           THEN procs' = [procs EXCEPT ![p] = [@ EXCEPT !.pc = "commit"]]
           ELSE procs' = [procs EXCEPT ![p] =
                             [@ EXCEPT !.k = pr.k + 1,
                                       !.added = IF ChassisExists(View(pr), pr.st.data[pr.k])
                                                 THEN pr.added
                                                 ELSE Append(pr.added,
                                                        NewVehicle(pr.st.data[pr.k], pr.branch))]]
        /\ UNCHANGED <<vehicles, session>>
        /\ SyncFrame

\* db.commit() and the response
SyncCommit(p) ==
    LET pr == procs[p]
        c  == CommitVehicles(vehicles, pr.added)
    IN  /\ pr.pc = "commit"
        /\ vehicles' = c.vehicles
        /\ procs' = [procs EXCEPT ![p] = [@ EXCEPT !.pc = "done", !.success = ~c.raised]]
        /\ UNCHANGED session
        /\ SyncFrame

SyncNext == \E p \in SyncProcs : SyncRequest(p) \/ SyncScan(p) \/ SyncCheck(p) \/ SyncCommit(p)

SpecSync == SyncInit /\ [][SyncNext]_vars

C4_RerunCreatesNothing ==
    [][(hist'.op = "sync_emails" /\ hist'.ran /\ hist'.rerun) => vehicles' = vehicles]_vars

\* a later run has met a load that is already in the vehicle master
C4_Witness ==
    /\ hist.op = "sync_emails" /\ hist.ran /\ hist.rerun /\ hist.connected
    /\ \E k \in 1..Len(hist.trail) : hist.trail[k][2] = "dup"
    /\ \E i \in 1..Len(vehicles) : vehicles[i].status = "In Transit"

\* what the manifest lines of the messages a run parsed say, as written
ParsedLines(trail) ==
    UNION { {LineSpecs[Messages[trail[k][1]].lines[j]].x :
                j \in 1..Len(Messages[trail[k][1]].lines)} :
            k \in {h \in 1..Len(trail) : trail[h][2] = "parsed"} }

\* C8: the rows an ingestion run adds are In Transit at the branch of the
\* run, each with the chassis and the load reference of a manifest line of a
\* parsed message; no added row bears a chassis that was in the vehicle
\* master, and the rows that were there are unchanged.
C8_InsertedVehicles ==
    [][(hist'.op = "sync_emails" /\ hist'.ran) =>
        /\ Len(vehicles') >= Len(vehicles)
        /\ SubSeq(vehicles', 1, Len(vehicles)) = vehicles
        /\ \A i \in (Len(vehicles) + 1)..Len(vehicles') :
              /\ vehicles'[i].status = "In Transit"
              /\ vehicles'[i].current_branch_id = hist'.branch
              /\ \A j \in 1..Len(vehicles) : vehicles[j].chassis_no # vehicles'[i].chassis_no
              /\ \E x \in ParsedLines(hist'.trail) :
                    /\ x.ok
                    /\ x.ch = vehicles'[i].chassis_no
                    /\ x.ref = vehicles'[i].load_reference_number]_vars

\* a run has added a vehicle and has passed over a record whose chassis was
\* in stock already
C8_Witness ==
    /\ hist.op = "sync_emails" /\ hist.ran /\ resp.success
    /\ \E i \in 1..Len(vehicles) :
          /\ vehicles[i].status = "In Transit"
          /\ vehicles[i].current_branch_id = hist.branch
          /\ \E k \in 1..Len(hist.data) :
                /\ hist.data[k].chassis_no = vehicles[i].chassis_no
                /\ hist.data[k].load_reference = vehicles[i].load_reference_number
    /\ \E i \in 1..Len(vehicles), k \in 1..Len(hist.data) :
          /\ hist.data[k].chassis_no = vehicles[i].chassis_no
          /\ vehicles[i].load_reference_number = NoneVal

\* C9: a run whose mailbox connection or login fails adds no vehicle and
\* answers with a failure.
C9_ConnectionFailureIsAnError ==
    [][(hist'.op = "sync_emails" /\ hist'.ran /\ ~hist'.connected)
       => (vehicles' = vehicles /\ ~resp'.success)]_vars

\* the messages of a mailbox whose fetch does not raise
Healthy(mb) == SelectSeq(mb, LAMBDA m : ~FetchRaises(m))

\* C10: a connected run returns what the same run returns over the mailbox
\* without its failing messages, and when it answers success every returned
\* record's chassis is in the vehicle master.
C10_MessageErrorDoesNotAbort ==
    [][(hist'.op = "sync_emails" /\ hist'.ran /\ hist'.connected) =>
        /\ hist'.data = ScanLoop(ScanStart, RecentIds(Healthy(mailbox[hist'.branch])),
                                 1, vehicles).data
        /\ resp'.success =>
              \A k \in 1..Len(hist'.data) :
                 \E i \in 1..Len(vehicles') :
                    vehicles'[i].chassis_no = hist'.data[k].chassis_no]_vars

\* a successful run has parsed a message, met a failing one, and parsed
\* another after it, and the vehicles of both are in the vehicle master
C10_Witness ==
    /\ hist.op = "sync_emails" /\ hist.ran /\ hist.connected /\ resp.success
    /\ \E a, e, b \in 1..Len(hist.trail) :
          /\ a < e /\ e < b
          /\ hist.trail[a][2] = "parsed" /\ hist.trail[e][2] = "error"
          /\ hist.trail[b][2] = "parsed"
          /\ \A m \in {hist.trail[a][1], hist.trail[b][1]} :
                \A k \in 1..Len(MsgParsed[m]) :
                   \E i \in 1..Len(vehicles) :
                      /\ vehicles[i].chassis_no = MsgParsed[m][k].chassis_no
                      /\ vehicles[i].status = "In Transit"

(***************************************************************************)
(* Claims about the scan bounds of an ingestion run.                       *)
(***************************************************************************)
\* the number of manifests a run parsed and accumulated
Imported(trail) == Cardinality({k \in 1..Len(trail) : trail[k][2] = "parsed"})

\* C11: a connected run examines the most recent messages newest first, at
\* most ScanCap of them, and leaves messages of those unexamined exactly when
\* the number of manifests it imported has reached TargetCount.
C11_ScanStopsAtImportedTarget ==
    (hist.op = "sync_emails" /\ hist.ran /\ hist.connected) =>
        LET mb     == mailbox[hist.branch]
            recent == [k \in 1..MinOf({Len(mb), ScanCap}) |-> mb[Len(mb) + 1 - k]]
        IN  /\ Len(hist.trail) <= ScanCap
            /\ Len(hist.trail) <= Len(recent)
            /\ \A k \in 1..Len(hist.trail) : hist.trail[k][1] = recent[k]
            /\ (Len(hist.trail) < Len(recent)) <=> (Imported(hist.trail) = TargetCount)

(***************************************************************************)
(* Claims about manual sale (stock and PDI specifications).                *)
(***************************************************************************)
\* the submitted chassis names a vehicle In Stock at the caller's branch
ValidForSale(vt, c, branch_id) ==
    \E n \in 1..Len(vt) : /\ vt[n].chassis_no = c
                          /\ vt[n].status = "In Stock"
                          /\ vt[n].current_branch_id = branch_id

\* the SALE rows a step appended for a chassis
NewSaleRows(lg, lg2, c) ==
    {j \in (Len(lg) + 1)..Len(lg2) : /\ lg2[j].Transaction_Type = "SALE"
                                     /\ lg2[j].chassis_no = c}

\* C12: for every submitted chassis list, each submitted chassis whose
\* vehicle is In Stock at the caller's branch is Sold after the call, and the
\* call has appended exactly one SALE row, of quantity 1, for it.
C12_OneSaleRowPerValidChassis ==
    [][(hist'.op = "manual_sale" /\ hist'.ran) =>
        \A k \in 1..Len(hist'.chassis) :
            LET c == hist'.chassis[k]
            IN  ValidForSale(vehicles, c, hist'.branch) =>
                  /\ \A n \in 1..Len(vehicles') :
                        vehicles'[n].chassis_no = c => vehicles'[n].status = "Sold"
                  /\ Cardinality(NewSaleRows(ledger, ledger', c)) = 1
                  /\ \A j \in NewSaleRows(ledger, ledger', c) : ledger'[j].Quantity = 1]_vars

\* C13: a submitted chassis whose vehicle is not In Stock at the caller's
\* branch leaves its vehicle as it was, gets no SALE row, and is named in the
\* response.
C13_RejectedChassisIsReported ==
    [][(hist'.op = "manual_sale" /\ hist'.ran) =>
        \A k \in 1..Len(hist'.chassis) :
            LET c == hist'.chassis[k]
            IN  ~ValidForSale(vehicles, c, hist'.branch) =>
                  /\ \A n \in 1..Len(vehicles) :
                        vehicles[n].chassis_no = c => vehicles'[n] = vehicles[n]
                  /\ NewSaleRows(ledger, ledger', c) = {}
                  /\ c \in resp'.chassis_named]_vars

\* C17: a manual sale with a non-empty chassis list none of which names a
\* vehicle In Stock at the caller's branch fails and writes nothing.
C17_NoValidChassisIsRefused ==
    [][(/\ hist'.op = "manual_sale" /\ hist'.ran
        /\ \A k \in 1..Len(hist'.chassis) :
              ~ValidForSale(vehicles, hist'.chassis[k], hist'.branch))
       => (~resp'.success /\ vehicles' = vehicles /\ ledger' = ledger)]_vars

\* a manual sale naming only a vehicle that stands at another branch, or is
\* not In Stock, has been refused
C17_Witness ==
    /\ hist.op = "manual_sale" /\ hist.ran /\ ~resp.success
    /\ \E k \in 1..Len(hist.chassis), n \in 1..Len(vehicles) :
          /\ vehicles[n].chassis_no = hist.chassis[k]
          /\ (vehicles[n].current_branch_id # hist.branch \/ vehicles[n].status # "In Stock")

(***************************************************************************)
(* Claims about transfer-batch (stock specification).                      *)
(***************************************************************************)
\* the submitted chassis that name a vehicle In Stock at the source branch
InStockAtSource(vt, chassis_numbers, from_branch_id) ==
    {c \in {chassis_numbers[k] : k \in 1..Len(chassis_numbers)} :
        \E n \in 1..Len(vt) : /\ vt[n].chassis_no = c
                              /\ vt[n].status = "In Stock"
                              /\ vt[n].current_branch_id = from_branch_id}

\* C14: between different branches, a transfer-batch call that succeeds has moved exactly the submitted
\* vehicles that were In Stock at the source branch, and the count it reports
\* is the number of those vehicles; a call none of whose submitted vehicles
\* is In Stock at the source branch fails.
C14_ReportedCountIsAcceptedCount ==
    [][(hist'.op = "transfer_batch" /\ BetweenBranches(ledger')) =>
        LET ok == InStockAtSource(vehicles, hist'.chassis, hist'.branch)
        IN  /\ resp'.success =>
                /\ {ledger'[j].chassis_no : j \in (Len(ledger) + 1)..Len(ledger')} = ok
                /\ Len(ledger') - Len(ledger) = Cardinality(ok)
                /\ resp'.count = Cardinality(ok)
            /\ ok = {} => ~resp'.success]_vars

(***************************************************************************)
(* Claims about the transaction of a write call (write specification).     *)
(***************************************************************************)
WriteOps == {"receive_load", "manual_sale", "transfer_batch", "sync_emails"}

\* C15: a write call that meets an exception answers with an error, and a
\* write call that answers with an error has left the vehicle master and the
\* ledger as they were before the call.
C15_AllOrNothing ==
    [][(hist'.op \in WriteOps) =>
        /\ hist'.fault => ~resp'.success
        /\ ~resp'.success => (vehicles' = vehicles /\ ledger' = ledger)]_vars

\* a receive-load call has met an exception after it had completed a Pending
\* row, and the row is Pending still
C15_Witness ==
    /\ hist.op = "receive_load" /\ hist.fault /\ resp.code = 500
    /\ \E i \in 1..Len(ledger) : /\ ledger[i].Transaction_Type = "OUTWARD"
                                 /\ ledger[i].Load_Number = hist.load
                                 /\ ledger[i].To_Branch_ID = hist.branch
                                 /\ ledger[i].Status = "Pending"
    /\ \A i \in 1..Len(ledger) : ledger[i].Transaction_Type # "INWARD"

(***************************************************************************)
(* Claims about required inputs (transfer specification).                  *)
(***************************************************************************)
\* C16: a receive-load call without a load number, and a transfer-batch call
\* without a destination branch, a DC number or any chassis, answers with a
\* failure and writes nothing: vehicle master, ledger and load counter stay.
C16_MissingInputIsRejected ==
    [][(\/ hist'.op = "receive_load" /\ hist'.load = <<>>
        \/ /\ hist'.op = "transfer_batch"
           /\ (hist'.destination = <<>> \/ hist'.dc = <<>> \/ hist'.chassis = <<>>))
       => (/\ ~resp'.success
           /\ vehicles' = vehicles /\ ledger' = ledger /\ nextLoad' = nextLoad)]_vars

\* a signed-in user has submitted a transfer with a destination and a chassis
\* that is In Stock at the active branch, but no DC number, and was refused
C16_Witness ==
    /\ hist.op = "transfer_batch" /\ check_auth(session)
    /\ hist.dc = <<>> /\ hist.destination # <<>> /\ hist.destination # hist.branch
    /\ hist.chassis # <<>>
    /\ \E i \in 1..Len(vehicles) : /\ vehicles[i].chassis_no = hist.chassis[1]
                                   /\ vehicles[i].status = "In Stock"
                                   /\ vehicles[i].current_branch_id = hist.branch
    /\ ~resp.success

(***************************************************************************)
(* Claims about the ledger rows (stock specification).                     *)
(***************************************************************************)
\* the rows whose Status a successful receive-load call assigns: the rows of
\* its query
StatusWrites ==
    IF hist'.op = "receive_load" /\ resp'.success
    THEN {ReceiveQuery(ledger, hist'.load, hist'.branch)[k] :
            k \in 1..Len(ReceiveQuery(ledger, hist'.load, hist'.branch))}
    ELSE {}

\* C19: with transfers between different branches only, no step deletes a
\* ledger row; a step leaves every existing row as it was, except that a
\* receive-load call turns the Status of a Pending row to Completed; and the
\* rows whose Status a receive-load call assigns are Pending rows, so that a
\* Completed row is not written again.
C19_LedgerRowsImmutable ==
    [][BetweenBranches(ledger') =>
        /\ Len(ledger') >= Len(ledger)
        /\ \A i \in 1..Len(ledger) :
              \/ ledger'[i] = ledger[i]
              \/ /\ hist'.op = "receive_load"
                 /\ ledger[i].Status = "Pending"
                 /\ ledger'[i] = [ledger[i] EXCEPT !.Status = "Completed"]
        /\ \A i \in StatusWrites : ledger[i].Status = "Pending"]_vars

(***************************************************************************)
(* Claims about the PDI steps (PDI specification).                         *)
(***************************************************************************)
\* C18: no step moves a vehicle that is Sold or Allotted back to In Stock or
\* In Transit, and no step moves a Sold vehicle to Allotted.
C18_VehicleStatusMovesForward ==
    [][\A i \in 1..Len(vehicles) :
          /\ vehicles[i].status \in {"Sold", "Allotted"}
                => vehicles'[i].status \notin {"In Stock", "In Transit"}
          /\ vehicles[i].status = "Sold" => vehicles'[i].status # "Allotted"]_vars

\* C20: a step leaves a sales record's fulfillment_status as it was, or moves
\* it from PDI Pending to PDI In Progress, or from PDI In Progress to PDI
\* Complete.
C20_FulfillmentAdvancesStepwise ==
    [][\A i \in 1..Len(sales) :
          \/ sales'[i].fulfillment_status = sales[i].fulfillment_status
          \/ /\ sales[i].fulfillment_status = "PDI Pending"
             /\ sales'[i].fulfillment_status = "PDI In Progress"
          \/ /\ sales[i].fulfillment_status = "PDI In Progress"
             /\ sales'[i].fulfillment_status = "PDI Complete"]_vars

(***************************************************************************)
(* Claims about the same-branch check (transfer specification).            *)
(***************************************************************************)
\* C22: when an owner has just switched the active branch (the session then
\* holds the branch id as the text of the form field) and submits a transfer
\* whose destination is that branch, the transfer is refused and neither the
\* vehicle master nor the ledger nor the load counter changes.
C22_SameBranchIsRefused ==
    [][(/\ hist.op = "switch_context" /\ check_auth(session)
        /\ session.branch_id = NoneVal
        /\ hist'.op = "transfer_batch"
        /\ hist'.branch = session.active_context
        /\ hist'.destination = hist'.branch)
       => (/\ ~resp'.success
           /\ vehicles' = vehicles /\ ledger' = ledger /\ nextLoad' = nextLoad)]_vars

C24_VehicleLinkedToOneSale ==
    /\ \A i, j \in 1..Len(sales) :
          (Truthy(sales[i].chassis_no) /\ sales[i].chassis_no = sales[j].chassis_no) => i = j
    /\ \A i \in 1..Len(sales), n \in 1..Len(vehicles) :
          (Truthy(sales[i].chassis_no) /\ vehicles[n].chassis_no = sales[i].chassis_no)
             => vehicles[n].sale_id = sales[i].id

(***************************************************************************)
(* Claims about the branch context of a session (transfer specification).  *)
(***************************************************************************)
\* C25: while the signed-in user belongs to a branch, the active context is
\* that branch and transfer and receive-load act for that branch; a
\* switch-context call leaves the session as it is, and no step of such a
\* session that keeps it signed in changes the stored active_context.
C25_BranchUserContextIsOwnBranch ==
    [][(check_auth(session) /\ session.branch_id # NoneVal) =>
        /\ get_active_context(session) = session.branch_id
        /\ hist'.op \in {"transfer_batch", "receive_load"}
              => hist'.branch = session.branch_id
        /\ hist'.op = "switch_context" => session' = session
        /\ session'.logged_in => session'.active_context = session.active_context]_vars

\* a user of a branch, whose session still holds the context an owner had
\* chosen, has asked for a switch of context and the session has kept its branch
C25_Witness ==
    /\ hist.op = "switch_context"
    /\ check_auth(session) /\ session.branch_id # NoneVal
    /\ session.active_context # NoneVal
    /\ session.active_context # session.branch_id
    /\ get_active_context(session) = session.branch_id

(***************************************************************************)
(* Claims about what receive-load leaves alone (receiving specification).  *)
(***************************************************************************)
\* the existing rows a receive-load call for a load at a branch may change
AddressedRows(lg, load_number, branch_id) ==
    {i \in 1..Len(lg) : /\ lg[i].Transaction_Type = "OUTWARD"
                        /\ lg[i].Load_Number = load_number
                        /\ lg[i].To_Branch_ID = branch_id}

\* C26: a receive-load call for load L at branch X removes no row and no
\* vehicle; an existing ledger row it changes is an OUTWARD row of load L
\* addressed to X, and a vehicle it changes is named by such a row.
C26_ReceiveTouchesOnlyItsLoad ==
    [][hist'.op = "receive_load" =>
        /\ Len(ledger') >= Len(ledger) /\ Len(vehicles') = Len(vehicles)
        /\ \A i \in 1..Len(ledger) :
              ledger'[i] # ledger[i] => i \in AddressedRows(ledger, hist'.load, hist'.branch)
        /\ \A n \in 1..Len(vehicles) :
              vehicles'[n] # vehicles[n] =>
                 \E i \in AddressedRows(ledger, hist'.load, hist'.branch) :
                    ledger[i].chassis_no = vehicles[n].chassis_no]_vars

\* load T1 has been received at its branch, while the row of the other load
\* is Pending, its vehicle In Transit, and a SALE row is in the ledger
C26_Witness ==
    /\ hist.op = "receive_load" /\ resp.success
    /\ \E i \in 1..Len(ledger) : /\ ledger[i].Transaction_Type = "OUTWARD"
                                 /\ ledger[i].Load_Number = hist.load
                                 /\ ledger[i].Status = "Completed"
    /\ \E i \in 1..Len(ledger) : /\ ledger[i].Transaction_Type = "OUTWARD"
                                 /\ ledger[i].Load_Number # hist.load
                                 /\ ledger[i].To_Branch_ID # hist.branch
                                 /\ ledger[i].Status = "Pending"
    /\ \E i \in 1..Len(ledger) : ledger[i].Transaction_Type = "SALE"
    /\ \E n \in 1..Len(vehicles) : vehicles[n].status = "In Transit"


(***************************************************************************)
(* The repeated-ingestion specification: requests keep arriving and the    *)
(* "Sync" button is pressed again and again against mailboxes that do not  *)
(* change.  Fairness states that the user agent does not stop.             *)
(***************************************************************************)
RepeatNext ==
    \/ Login
    \/ Logout
    \/ switch_context
    \/ sync_emails

SpecRepeat ==
    /\ Init
    /\ [][RepeatNext]_vars
    /\ WF_vars(RepeatNext)

\* the last request was a run of sync_emails at branch b whose mailbox
\* connection succeeded
RanAt(b) ==
    /\ hist.op = "sync_emails"
    /\ hist.ran /\ hist.branch = b /\ hist.connected

\* the (at most ScanCap) most recent messages of a mailbox
RecentSet(mb) == {RecentIds(mb)[k] : k \in 1..Len(RecentIds(mb))}

\* the manifests of the scan window that carry a load reference
Manifests(mb) == {m \in RecentSet(mb) : Truthy(MsgPeek[m])}

\* no message of the scan window fails to parse, and no chassis is named twice
\* by the manifests of the window
WindowParses(mb) ==
    /\ \A m \in RecentSet(mb) : ~FetchRaises(m)
    /\ \A m1, m2 \in Manifests(mb) :
           \A k1 \in 1..Len(MsgParsed[m1]), k2 \in 1..Len(MsgParsed[m2]) :
               (MsgParsed[m1][k1].chassis_no = MsgParsed[m2][k2].chassis_no)
                   => (m1 = m2 /\ k1 = k2)

\* manifest m lies in the scan window of branch b and its load is not in the
\* vehicle master
PendingManifest(b, m) ==
    /\ m \in RecentSet(mailbox[b])
    /\ WindowParses(mailbox[b])
    /\ Truthy(MsgPeek[m])
    /\ MsgParsed[m] # <<>>
    /\ ~LoadExists(vehicles, MsgPeek[m])

\* every vehicle of manifest m is in the vehicle master
ManifestInserted(m) ==
    \A k \in 1..Len(MsgParsed[m]) : ChassisExists(vehicles, MsgParsed[m][k])

\* C27: when connected runs at a branch keep taking place against its
\* unchanged mailbox, every manifest of the scan window whose load is not in
\* the vehicle master has its vehicles inserted eventually, whatever skipped
\* or imported manifests are newer: from some run on no such manifest is left
\* with a vehicle missing.
C27_PendingManifestIsIngested ==
    \A b \in ConfiguredBranches :
        ([]<>RanAt(b)) =>
            <>[](\A m \in MsgIds : PendingManifest(b, m) => ManifestInserted(m))

(***************************************************************************)
(* Claims about who may act on a sale in the mechanic interface.           *)
(***************************************************************************)
\* the sale a mechanic request names is assigned to the user of the session
AssignedToCaller(sale_id) ==
    \E n \in ById(sales, sale_id) :
        /\ sales[n].pdi_assigned_to # NoneVal
        /\ sales[n].pdi_assigned_to = SessionUsername(session)

\* C28: scan-qr and complete-pdi change a sales record or a vehicle only when
\* the sale the request names is assigned to the logged-in user.
C28_OnlyAssignedMechanicChangesSale ==
    [][(/\ hist'.op \in {"scan_qr", "complete_pdi"}
        /\ (sales' # sales \/ vehicles' # vehicles))
           => AssignedToCaller(hist'.sale_id)]_vars

(***************************************************************************)
(* The mechanic-interface specification: logins, the dashboard and the     *)
(* requests of the PDI work.  Fairness: every user keeps signing in and    *)
(* the dashboard keeps being requested.                                    *)
(***************************************************************************)
\* GET /mechanic/dashboard (mechanic.py:16-32)
mechanic_dashboard ==
    /\ resp' = IF ~check_auth(session)
               THEN [op |-> "mechanic_dashboard", rendered |-> FALSE, location |-> "/login"]
               ELSE IF SessionRole(session) # "Mechanic"
               THEN [op |-> "mechanic_dashboard", rendered |-> FALSE, location |-> "/overview"]
               ELSE [op |-> "mechanic_dashboard", rendered |-> TRUE, location |-> ""]
    /\ hist' = [op |-> "mechanic_dashboard"]
    /\ UNCHANGED <<vehicles, sales>>
    /\ PdiFrame

MechanicNext ==
    \/ Login
    \/ Logout
    \/ mechanic_dashboard
    \/ assign_task
    \/ scan_qr_code
    \/ complete_pdi

SpecMechanic ==
    /\ PdiInit
    /\ [][MechanicNext]_vars
    /\ \A phone \in 1..Len(Users) : WF_vars(LoginWith(phone))
    /\ WF_vars(mechanic_dashboard)

\* the dashboard was rendered for the user of the session
DashboardRendered == resp.op = "mechanic_dashboard" /\ resp.rendered

\* C29: the mechanic interface is reachable: with every user signing in and
\* the dashboard requested again and again, GET /mechanic/dashboard
\* eventually renders the dashboard instead of redirecting.
C29_DashboardEventuallyRenders == <>DashboardRendered

(***************************************************************************)
(* The completion specification: the linking requests over a vehicle       *)
(* master that holds a vehicle entered from a manifest line whose chassis  *)
(* columns are blank.                                                      *)
(***************************************************************************)
\* a qualifying manifest line of load L3 with nothing in columns 113-130
BlankChassisLine ==
    [marker |-> "B", len |-> 186, m |-> <<"M","1">>, v |-> <<"V","1">>, col |-> <<"K","1">>,
     ref |-> <<"L","3">>, ch |-> <<>>, eng |-> <<"E","3">>]

BlankChassisManifest ==
    [i \in 1..BlankChassisLine.len |-> CharAt(BlankChassisLine, i)] \o <<"LF">>

\* the vehicle master after an ingestion run at branch 3 has parsed that
\* manifest and created its vehicle
IngestedBlankChassis ==
    create_vehicles_from_email_data(
        <<StockVehicle(<<"C","1">>, <<"1">>)>>,
        _parse_s08_content(BlankChassisManifest, BuildDecoderMap(ProductMappings),
                           SyncColorMap),
        <<"3">>).vehicles

CompleteInit ==
    /\ vehicles = IngestedBlankChassis
    /\ ledger = <<>>
    /\ session = NoSession
    /\ nextLoad = 0
    /\ resp = [op |-> "none"]
    /\ hist = [op |-> "none"]
    /\ mailbox = StockMailbox
    /\ ingested = {<<"3">>}
    /\ procs = <<>>
    /\ sales = <<SaleRecord(<<"1">>, <<"D","C","7">>)>>
    /\ pin = [kinds |-> <<>>]
    /\ pout = [batch |-> Unset, peek |-> Unset]

SpecComplete == CompleteInit /\ [][LinkNext]_vars

\* C30: a sales record whose fulfillment_status is PDI Complete carries a
\* non-empty chassis number that names a vehicle in the vehicle master.
C30_CompletedSaleNamesVehicle ==
    \A n \in 1..Len(sales) :
        (sales[n].fulfillment_status = "PDI Complete")
            => /\ Truthy(sales[n].chassis_no)
               /\ ByChassis(vehicles, sales[n].chassis_no) # {}
=============================================================================
